---- MODULE Spec2Model ----
(***************************************************************************)
(* FirmwareService of unifi-firmware-browser: the in-memory response       *)
(* cache (cachedFetch), the query-string builder (fetchFirmware,           *)
(* buildFilterQuery, buildQueryParams, searchFirmware) and the facade      *)
(* operations (fetchLatestFirmware, getFirmwareById,                       *)
(* getInitialFilterValues).                                                *)
(*                                                                         *)
(* The repository holds two revisions of the service: revision "A"         *)
(* (part_000 lines 126-256) builds the whole query with URLSearchParams,   *)
(* revision "B" (part_000 lines 332-616) concatenates the filter           *)
(* conditions itself.  The variable impl says which revision is loaded.    *)
(*                                                                         *)
(* A JavaScript string is a sequence of text pieces: a piece is either one *)
(* character of an input or one literal of the program text.               *)
(***************************************************************************)
EXTENDS Integers, Sequences, FiniteSets, TLC

VARIABLES impl, cache, calls, q, fv, fmt,
          selectedProductType, selectedPlatform, isShowingLatestFirmwareData,
          filterOptions, firmware, mount, timer, executions, hist

\* the state of the search view (FirmwareSearch.vue)
viewVars ==
  <<selectedProductType, selectedPlatform, isShowingLatestFirmwareData,
    filterOptions, firmware, mount, timer, executions, hist>>

vars == <<impl, cache, calls, q, fv, fmt, viewVars>>

(***************************************************************************)
(* JavaScript values of the filter fields                                  *)
(***************************************************************************)
Undefined == [t |-> "undefined", n |-> 0, s |-> <<>>]

Num(n) == [t |-> "number", n |-> n, s |-> <<>>]

Str(s) == [t |-> "string", n |-> 0, s |-> s]

\* ToBoolean: undefined, 0 and "" are falsy
Truthy(v) == \/ v.t = "number" /\ v.n # 0
             \/ v.t = "string" /\ v.s # <<>>

\* a || b
OrElse(a, b) == IF Truthy(a) THEN a ELSE b

\* value.toString() of a number or a string
toString(v) == IF v.t = "number" THEN <<ToString(v.n)>> ELSE v.s

\* Array.prototype.join
RECURSIVE Join(_, _)
Join(parts, sep) ==
  IF parts = <<>> THEN <<>>
  ELSE IF Len(parts) = 1 THEN parts[1]
  ELSE parts[1] \o sep \o Join(Tail(parts), sep)

\* String.prototype.trim on a sequence of pieces
RECURSIVE TrimStart(_)
TrimStart(s) == IF s # <<>> /\ Head(s) = " " THEN TrimStart(Tail(s)) ELSE s

RECURSIVE TrimEnd(_)
TrimEnd(s) ==
  IF s # <<>> /\ s[Len(s)] = " " THEN TrimEnd(SubSeq(s, 1, Len(s) - 1)) ELSE s

trim(s) == TrimEnd(TrimStart(s))

(***************************************************************************)
(* URLSearchParams.toString(): application/x-www-form-urlencoded.          *)
(* Letters, digits, "*", "-", "." and "_" stay, a space becomes "+",       *)
(* every other character becomes its percent escape.                       *)
(***************************************************************************)
PercentEscape ==
  ("~" :> "%7E") @@ ("&" :> "%26") @@ ("=" :> "%3D") @@ ("#" :> "%23") @@
  ("+" :> "%2B") @@ ("?" :> "%3F") @@ ("%" :> "%25")

FormEncodePiece(c) ==
  IF c = " " THEN "+"
  ELSE IF c \in DOMAIN PercentEscape THEN PercentEscape[c]
  ELSE c

FormEncode(s) == [i \in 1..Len(s) |-> FormEncodePiece(s[i])]

\* params: sequence of [key, value] appended in order
URLSearchParamsToString(params) ==
  Join([i \in 1..Len(params) |->
          FormEncode(params[i].key) \o <<"=">> \o FormEncode(params[i].value)],
       <<"&">>)

(***************************************************************************)
(* Endpoints                                                               *)
(***************************************************************************)
baseUrl == <<"https://fw-update.ubnt.com/api">>

firmwareEndpoint == <<"/firmware">>

firmwareLatestEndpoint == <<"/firmware-latest">>

DefaultLimit == 50

DefaultOffset == 0

(***************************************************************************)
(* Revision A: fetchFirmware builds every parameter with URLSearchParams.  *)
(***************************************************************************)
FilterParamA(field, v) ==
  IF Truthy(v)
  THEN <<[key |-> <<"filter">>,
          value |-> <<"eq", "~", "~", field, "~", "~">> \o v.s]>>
  ELSE <<>>

fetchFirmwareUrlA(filters) ==
  LET params ==
        <<[key |-> <<"limit">>,
           value |-> toString(OrElse(filters.limit, Num(DefaultLimit)))],
          [key |-> <<"offset">>,
           value |-> toString(OrElse(filters.offset, Num(DefaultOffset)))]>>
        \o (IF Truthy(filters.sort)
            THEN <<[key |-> <<"sort">>, value |-> filters.sort.s]>>
            ELSE <<>>)
        \o FilterParamA("product", filters.product)
        \o FilterParamA("platform", filters.platform)
        \o FilterParamA("channel", filters.channel)
  IN baseUrl \o firmwareEndpoint \o <<"?">> \o URLSearchParamsToString(params)

(***************************************************************************)
(* Revision B: conditions are concatenated as they are, limit/offset/sort  *)
(* go through URLSearchParams.                                             *)
(***************************************************************************)
buildFilterQuery(conditions) ==
  Join([i \in 1..Len(conditions) |->
          <<"filter", "=">> \o conditions[i].operator \o <<"~", "~">>
            \o conditions[i].field \o <<"~", "~">> \o conditions[i].value],
       <<"&">>)

\* params: sequence of [key, value] with value a JavaScript value
RECURSIVE KeptParams(_)
KeptParams(params) ==
  IF params = <<>> THEN <<>>
  ELSE LET p == Head(params)
           keep == p.value.t # "undefined"
                   /\ ~(p.value.t = "string" /\ p.value.s = <<>>)
       IN (IF keep THEN <<[key |-> p.key, value |-> toString(p.value)]>>
           ELSE <<>>) \o KeptParams(Tail(params))

buildQueryParams(params) == URLSearchParamsToString(KeptParams(params))

SimpleCondition(field, v) ==
  IF Truthy(v)
  THEN <<[field |-> <<field>>, operator |-> <<"eq">>, value |-> v.s]>>
  ELSE <<>>

fetchFirmwareUrlB(filters, additionalConditions) ==
  LET conditions == additionalConditions
                    \o SimpleCondition("product", filters.product)
                    \o SimpleCondition("platform", filters.platform)
                    \o SimpleCondition("channel", filters.channel)
      filterQuery == buildFilterQuery(conditions)
      params == buildQueryParams(
                  <<[key |-> <<"limit">>,
                     value |-> OrElse(filters.limit, Num(DefaultLimit))],
                    [key |-> <<"offset">>,
                     value |-> OrElse(filters.offset, Num(DefaultOffset))],
                    [key |-> <<"sort">>, value |-> filters.sort]>>)
      queryString == Join(SelectSeq(<<filterQuery, params>>,
                                    LAMBDA x : x # <<>>), <<"&">>)
  IN baseUrl \o firmwareEndpoint
       \o (IF queryString # <<>> THEN <<"?">> \o queryString ELSE <<>>)

\* the conditions searchFirmware hands to fetchFirmware
searchConditions(searchTerm) ==
  IF trim(searchTerm) # <<>>
  THEN <<[field |-> <<"product">>, operator |-> <<"like">>,
          value |-> <<"*">> \o searchTerm \o <<"*">>]>>
  ELSE <<>>

fetchLatestFirmwareUrl == baseUrl \o firmwareLatestEndpoint

getFirmwareByIdUrl(id) == baseUrl \o firmwareEndpoint \o <<"/">> \o id

(***************************************************************************)
(* Parsed response bodies (the values the cache holds).  A JSON body is    *)
(* null, an object without _embedded, or a FirmwareResponse whose          *)
(* _embedded.firmware is a list of items [product, platform, channel].     *)
(***************************************************************************)
JsonNull == [t |-> "null", embedded |-> FALSE, firmware |-> <<>>]

MalformedBody == [t |-> "object", embedded |-> FALSE, firmware |-> <<>>]

FirmwareResponse(items) == [t |-> "object", embedded |-> TRUE, firmware |-> items]

Item(product, platform, channel) ==
  [product |-> product, platform |-> platform, channel |-> channel]

\* ToBoolean of a parsed body: null is falsy, every object is truthy
TruthyBody(b) == b.t # "null"

(***************************************************************************)
(* getInitialFilterValues: new Set(firmware.map(...)), then                *)
(* toSorted((a, b) => a.toLowerCase().localeCompare(b.toLowerCase()))      *)
(***************************************************************************)
UpperCase == <<"A", "B", "C">>

LowerCase == <<"a", "b", "c">>

CharCode ==
  ("A" :> 65) @@ ("B" :> 66) @@ ("C" :> 67) @@
  ("a" :> 97) @@ ("b" :> 98) @@ ("c" :> 99)

toLowerCasePiece(ch) ==
  IF \E i \in 1..Len(UpperCase) : UpperCase[i] = ch
  THEN LowerCase[CHOOSE i \in 1..Len(UpperCase) : UpperCase[i] = ch]
  ELSE ch

toLowerCase(s) == [i \in 1..Len(s) |-> toLowerCasePiece(s[i])]

\* the sign of a.localeCompare(b) for strings of lower-case ASCII letters
RECURSIVE localeCompare(_, _)
localeCompare(a, b) ==
  IF a = <<>> /\ b = <<>> THEN 0
  ELSE IF a = <<>> THEN -1
  ELSE IF b = <<>> THEN 1
  ELSE IF CharCode[Head(a)] < CharCode[Head(b)] THEN -1
  ELSE IF CharCode[Head(a)] > CharCode[Head(b)] THEN 1
  ELSE localeCompare(Tail(a), Tail(b))

\* the comparator the code passes to toSorted; a default sort by code
\* units instead is the slip the lower-casing guards against
CompareByCodeUnits(a, b) == localeCompare(a, b)

sortAlphabetically(a, b) == localeCompare(toLowerCase(a), toLowerCase(b))

\* new Set(array): the distinct values in order of first occurrence
RECURSIVE SetOf(_)
SetOf(arr) ==
  IF arr = <<>> THEN <<>>
  ELSE LET rest == SetOf(SubSeq(arr, 1, Len(arr) - 1))
           x == arr[Len(arr)]
       IN IF \E i \in 1..Len(rest) : rest[i] = x THEN rest ELSE Append(rest, x)

\* Array.prototype.toSorted with the comparator above: a stable sort
RECURSIVE InsertSorted(_, _)
InsertSorted(sorted, x) ==
  IF sorted = <<>> THEN <<x>>
  ELSE IF sortAlphabetically(sorted[Len(sorted)], x) <= 0
       THEN Append(sorted, x)
  ELSE Append(InsertSorted(SubSeq(sorted, 1, Len(sorted) - 1), x),
              sorted[Len(sorted)])

RECURSIVE toSorted(_)
toSorted(arr) ==
  IF arr = <<>> THEN <<>>
  ELSE InsertSorted(toSorted(SubSeq(arr, 1, Len(arr) - 1)), arr[Len(arr)])

EmptyFilterValues == [products |-> <<>>, platforms |-> <<>>, channels |-> <<>>]

\* a field value that is no string (a JSON null): toLowerCase on it throws
NotAString == <<"(null)">>

FieldValues(body, f) == [i \in 1..Len(body.firmware) |-> body.firmware[i][f]]

\* the comparator runs as soon as there are two values to order
sortThrows(arr) == Len(arr) >= 2 /\ \E i \in 1..Len(arr) : arr[i] = NotAString

\* response._embedded.firmware throws a TypeError on null and on an object
\* without _embedded; the comparator throws on a value that is no string
extractionThrows(body) ==
  \/ ~(body.t = "object" /\ body.embedded)
  \/ \E f \in {"product", "platform", "channel"} :
       sortThrows(SetOf(FieldValues(body, f)))

extractFilterValues(body) ==
  LET col(f) == FieldValues(body, f)
  IN [products |-> toSorted(SetOf(col("product"))),
      platforms |-> toSorted(SetOf(col("platform"))),
      channels |-> toSorted(SetOf(col("channel")))]

(***************************************************************************)
(* Outcomes of a call: a returned value or a thrown error.  status is the  *)
(* HTTP status of the response the call received (0: none was received).   *)
(***************************************************************************)
NoOutcome ==
  [kind |-> "none", body |-> JsonNull, message |-> <<>>, status |-> 0,
   values |-> EmptyFilterValues]

Return(body, status) ==
  [kind |-> "return", body |-> body, message |-> <<>>, status |-> status,
   values |-> EmptyFilterValues]

Throw(message, status) ==
  [kind |-> "throw", body |-> JsonNull, message |-> message, status |-> status,
   values |-> EmptyFilterValues]

\* `${response.status}` of a three-digit status, one piece per digit
Digits(n) == <<ToString(n \div 100), ToString((n \div 10) % 10), ToString(n % 10)>>

\* new Error(`Failed to fetch: ${response.status} ${response.statusText}`)
HttpError(response) ==
  Throw(<<"Failed to fetch: ">> \o Digits(response.status) \o <<" ">>
          \o response.statusText,
        response.status)

\* String.prototype.includes; no literal piece of this model holds a digit
includes(s, needle) ==
  \E i \in 1..(Len(s) - Len(needle) + 1) :
    SubSeq(s, i, i + Len(needle) - 1) = needle

\* response.ok
ok(response) == response.status >= 200 /\ response.status <= 299

(***************************************************************************)
(* The remote: what fetch(url) and response.json() can deliver             *)
(***************************************************************************)
Responses ==
  {[status |-> 200, statusText |-> <<"OK">>],
   [status |-> 404, statusText |-> <<"Not Found">>],
   [status |-> 500, statusText |-> <<"Internal Server Error">>],
   [status |-> 500, statusText |-> <<"upstream ", "4", "0", "4">>]}

\* fetch rejects with a TypeError when no response arrives
TransportMessage == <<"Failed to fetch">>

\* response.json() rejects with a SyntaxError whose text is the engine's;
\* V8 quotes the start of the body in it
ParseMessages ==
  {<<"Unexpected end of JSON input">>,
   <<"Unexpected token '<', <h1>", "4", "0", "4", " is not valid JSON">>}

ResponseBAC ==
  FirmwareResponse(<<Item(<<"B">>, <<"c">>, <<"b">>),
                     Item(<<"a">>, <<"c">>, <<"a">>),
                     Item(<<"C">>, <<"B">>, <<"b">>)>>)

ResponseNullProduct ==
  FirmwareResponse(<<Item(NotAString, <<"c">>, <<"b">>),
                     Item(<<"a">>, <<"c">>, <<"b">>)>>)

Bodies == {JsonNull, MalformedBody, ResponseBAC, ResponseNullProduct}

(***************************************************************************)
(* The cache: a Map from request URL to parsed body                        *)
(***************************************************************************)
EmptyCache == [u \in {} |-> JsonNull]

\* this.cache.get(key) || null
getCached(m, key) ==
  IF key \in DOMAIN m /\ TruthyBody(m[key]) THEN m[key] ELSE JsonNull

\* a cache that keeps the first body stored under a key
SetCacheIfAbsent(m, key, data) ==
  IF key \in DOMAIN m THEN m
  ELSE [k \in DOMAIN m \cup {key} |-> IF k = key THEN data ELSE m[k]]

\* a cache that holds one entry only
SetCacheSingleEntry(m, key, data) == [k \in {key} |-> data]

\* this.cache.set(key, data)
setCache(m, key, data) ==
  [k \in DOMAIN m \cup {key} |-> IF k = key THEN data ELSE m[k]]

\* a failing call that records its failure under the URL
CacheAfterThrowNegative(m, key) == setCache(m, key, MalformedBody)

\* cachedFetch throws before it reaches this.setCache
cacheAfterThrow(m, key) == m

(***************************************************************************)
(* What each operation makes of the outcome of its cachedFetch             *)
(***************************************************************************)
\* catch (error) { if (error.message.includes("404")) return null; throw error }
getFirmwareByIdResult(raw) ==
  IF raw.kind = "throw" /\ includes(raw.message, <<"4", "0", "4">>)
  THEN Return(JsonNull, raw.status)
  ELSE raw

\* a fetchFirmware that collapsed a 404 the way getFirmwareById does
ResultNullOn404(raw) == getFirmwareByIdResult(raw)

\* catch (error) { console.error(...); throw error }
fetchFirmwareResult(raw) == raw

fetchLatestFirmwareResult(raw) == raw

\* getInitialFilterValues without its try/catch
GetInitialFilterValuesNoCatch(raw) ==
  IF raw.kind = "throw" THEN raw
  ELSE IF extractionThrows(raw.body)
       THEN Throw(<<"Cannot read properties of undefined">>, raw.status)
  ELSE [Return(JsonNull, raw.status)
          EXCEPT !.values = extractFilterValues(raw.body)]

\* try { extract } catch (error) { console.error(...); return empty lists }
getInitialFilterValuesResult(raw) ==
  IF raw.kind = "return" /\ ~extractionThrows(raw.body)
  THEN [Return(JsonNull, raw.status)
          EXCEPT !.values = extractFilterValues(raw.body)]
  ELSE Return(JsonNull, raw.status)

OpResult(op, raw) ==
  CASE op = "fetchFirmware" -> fetchFirmwareResult(raw)
    [] op = "fetchLatestFirmware" -> fetchLatestFirmwareResult(raw)
    [] op = "getFirmwareById" -> getFirmwareByIdResult(raw)
    [] op = "getInitialFilterValues" ->
         getInitialFilterValuesResult(fetchLatestFirmwareResult(raw))

(***************************************************************************)
(* Calls of the service.  Each call is one invocation of an operation: it  *)
(* runs to its first await inside cachedFetch, then resumes when fetch     *)
(* settles and again when response.json() settles.  Calls interleave at    *)
(* the awaits.  after: the calls that had finished when this one started;   *)
(* doneAfter: the calls that had finished when this one finished.          *)
(***************************************************************************)
MaxCalls == 2

Calls == 1..MaxCalls

IdleCall ==
  [pc |-> "idle", op |-> "none", url |-> <<>>, issued |-> FALSE, after |-> {},
   doneAfter |-> {}, raw |-> NoOutcome, result |-> NoOutcome]

\* the arguments the calls of the service are made with
CallIds == {<<"x">>}

CallFilters ==
  {[product |-> Str(<<"a">>), platform |-> Undefined, channel |-> Undefined,
    limit |-> Undefined, offset |-> Undefined, sort |-> Undefined]}

fetchFirmwareUrl(filters, additionalConditions) ==
  IF impl = "A" THEN fetchFirmwareUrlA(filters)
  ELSE fetchFirmwareUrlB(filters, additionalConditions)

Finished == {d \in Calls : calls[d].pc = "done"}

\* cachedFetch up to its first await: a hit returns, a miss issues the request
cachedFetch(c, op, url) ==
  /\ calls[c].pc = "idle"
  /\ \A d \in Calls : d < c => calls[d].pc # "idle"
  /\ LET cached == getCached(cache, url)
     IN calls' =
          [calls EXCEPT ![c] =
             IF TruthyBody(cached)
             THEN [pc |-> "done", op |-> op, url |-> url, issued |-> FALSE,
                   after |-> Finished, doneAfter |-> Finished,
                   raw |-> Return(cached, 0),
                   result |-> OpResult(op, Return(cached, 0))]
             ELSE [pc |-> "fetching", op |-> op, url |-> url, issued |-> TRUE,
                   after |-> Finished, doneAfter |-> {}, raw |-> NoOutcome,
                   result |-> NoOutcome]]
  /\ UNCHANGED <<impl, cache, q, fv, fmt, viewVars>>

FetchFirmware(c) ==
  \E filters \in CallFilters :
    cachedFetch(c, "fetchFirmware", fetchFirmwareUrl(filters, <<>>))

FetchLatestFirmware(c) ==
  cachedFetch(c, "fetchLatestFirmware", fetchLatestFirmwareUrl)

GetFirmwareById(c) ==
  \E id \in CallIds : cachedFetch(c, "getFirmwareById", getFirmwareByIdUrl(id))

GetInitialFilterValues(c) ==
  cachedFetch(c, "getInitialFilterValues", fetchLatestFirmwareUrl)

\* the call ends by throwing: raw is the error cachedFetch raised
ThrowFrom(c, raw) ==
  /\ calls' = [calls EXCEPT ![c].pc = "done", ![c].raw = raw,
                            ![c].doneAfter = Finished,
                            ![c].result = OpResult(calls[c].op, raw)]
  /\ cache' = cacheAfterThrow(cache, calls[c].url)
  /\ UNCHANGED <<impl, q, fv, fmt, viewVars>>

\* await fetch(url) rejects: no response
FetchRejects(c) ==
  /\ calls[c].pc = "fetching"
  /\ ThrowFrom(c, Throw(TransportMessage, 0))

\* await fetch(url) resolves with a response that is not ok
FetchRespondsError(c) ==
  /\ calls[c].pc = "fetching"
  /\ \E response \in Responses :
       /\ ~ok(response)
       /\ ThrowFrom(c, HttpError(response))

\* await fetch(url) resolves with an ok response: on to response.json()
FetchRespondsOk(c) ==
  /\ calls[c].pc = "fetching"
  /\ \E response \in Responses :
       /\ ok(response)
       /\ calls' = [calls EXCEPT ![c].pc = "parsing",
                                 ![c].raw = [NoOutcome EXCEPT
                                               !.status = response.status]]
  /\ UNCHANGED <<impl, cache, q, fv, fmt, viewVars>>

\* await response.json() rejects: the body is no JSON
JsonRejects(c) ==
  /\ calls[c].pc = "parsing"
  /\ \E message \in ParseMessages :
       ThrowFrom(c, Throw(message, calls[c].raw.status))

\* await response.json() resolves: store the body and return it
JsonResolves(c) ==
  /\ calls[c].pc = "parsing"
  /\ \E data \in Bodies :
       LET raw == Return(data, calls[c].raw.status)
       IN /\ cache' = setCache(cache, calls[c].url, data)
          /\ calls' = [calls EXCEPT ![c].pc = "done", ![c].raw = raw,
                                    ![c].doneAfter = Finished,
                                    ![c].result = OpResult(calls[c].op, raw)]
  /\ UNCHANGED <<impl, q, fv, fmt, viewVars>>

(***************************************************************************)
(* The query builder on its own: one call of fetchFirmware or              *)
(* searchFirmware up to the URL it hands to cachedFetch.                   *)
(***************************************************************************)
MaxValueLen == 2

ValueChars == {"a", "&"}

RECURSIVE StringsUpTo(_)
StringsUpTo(n) ==
  IF n = 0 THEN {<<>>}
  ELSE LET shorter == StringsUpTo(n - 1)
       IN shorter \cup {Append(s, ch) : s \in shorter, ch \in ValueChars}

\* a product value that spells the end of its own condition and a second one
ConditionInValue ==
  <<"a", "&", "filter", "=", "eq", "~", "~", "platform", "~", "~", "b">>

ProductInputs ==
  {Undefined, Str(ConditionInValue)}
    \cup {Str(s) : s \in StringsUpTo(MaxValueLen)}

PlatformInputs == {Undefined, Str(<<>>), Str(<<"b">>)}

ChannelInputs == {Undefined, Str(<<>>), Str(<<"beta">>)}

LimitInputs == {Undefined, Num(0), Num(10)}

OffsetInputs == {Undefined, Num(5)}

SortInputs == {Undefined, Str(<<>>), Str(<<"-", "created">>)}

FilterInputs ==
  [product : ProductInputs, platform : PlatformInputs, channel : ChannelInputs,
   limit : LimitInputs, offset : OffsetInputs, sort : SortInputs]

ConditionInputs ==
  {<<>>,
   <<[field |-> <<"version">>, operator |-> <<"eq">>, value |-> <<"a">>]>>,
   <<[field |-> <<"version">>, operator |-> <<"eq">>, value |-> <<>>]>>}

SearchTermInputs == {<<>>, <<" ">>, <<"a">>, <<" ", "a">>}

IdleQuery ==
  [pc |-> "ready", op |-> "none", filters |-> Undefined, conditions |-> <<>>,
   term |-> <<>>, url |-> <<>>]

QueryFetchFirmware ==
  /\ q.pc = "ready"
  /\ \E filters \in FilterInputs, conditions \in ConditionInputs :
       /\ impl = "A" => conditions = <<>>
       /\ q' = [pc |-> "built", op |-> "fetchFirmware", filters |-> filters,
                conditions |-> conditions, term |-> <<>>,
                url |-> fetchFirmwareUrl(filters, conditions)]
  /\ UNCHANGED <<impl, cache, calls, fv, fmt, viewVars>>

QuerySearchFirmware ==
  /\ q.pc = "ready"
  /\ impl = "B"
  /\ \E term \in SearchTermInputs, filters \in FilterInputs :
       q' = [pc |-> "built", op |-> "searchFirmware", filters |-> filters,
             conditions |-> searchConditions(term), term |-> term,
             url |-> fetchFirmwareUrl(filters, searchConditions(term))]
  /\ UNCHANGED <<impl, cache, calls, fv, fmt, viewVars>>

(***************************************************************************)
(* getInitialFilterValues on a firmware-latest response of any content     *)
(***************************************************************************)
MaxItems == 3

ItemInputs ==
  {Item(p, pl, ch) : p \in {<<"a">>, <<"B">>, <<"C">>, <<"A", "b">>},
                     pl \in {<<"c">>, <<"B">>}, ch \in {<<"b">>}}

RECURSIVE ItemListsUpTo(_)
ItemListsUpTo(n) ==
  IF n = 0 THEN {<<>>}
  ELSE LET shorter == ItemListsUpTo(n - 1)
       IN shorter \cup {Append(l, i) : l \in shorter, i \in ItemInputs}

IdleExtraction == [pc |-> "ready", firmware |-> <<>>, result |-> NoOutcome]

ExtractFilterValues ==
  /\ fv.pc = "ready"
  /\ \E items \in ItemListsUpTo(MaxItems) :
       fv' = [pc |-> "done", firmware |-> items,
              result |-> OpResult("getInitialFilterValues",
                                  Return(FirmwareResponse(items), 200))]
  /\ UNCHANGED <<impl, cache, calls, q, fmt, viewVars>>

(***************************************************************************)
(* The formatters.  A byte count runs past the 32 bits of a TLC integer,   *)
(* so the count m * 1024^e is held as the pair [m, e]; every quotient      *)
(* below is a quotient by a power of two and exact in a double.            *)
(***************************************************************************)
Bytes(m, e) == [m |-> m, e |-> e]

RECURSIVE Pow1024(_)
Pow1024(k) == IF k = 0 THEN 1 ELSE 1024 * Pow1024(k - 1)

\* Math.floor(Math.log(m) / Math.log(1024)) for 1 <= m < 1024^3
FloorLog1024(m) ==
  IF m < 1024 THEN 0 ELSE IF m < Pow1024(2) THEN 1 ELSE 2

sizes == <<"B", "KB", "MB", "GB">>

\* (x).toFixed(1) of x = m / 1024^k: the nearest tenth, a tie going up
toFixed1(m, k) ==
  LET tenths == (20 * m + Pow1024(k)) \div (2 * Pow1024(k))
  IN <<ToString(tenths \div 10), ".", ToString(tenths % 10)>>

formatFileSize(bytes) ==
  IF bytes.m = 0 THEN <<"0 B">>
  ELSE LET k == FloorLog1024(bytes.m)
           i == k + bytes.e
           size == toFixed1(bytes.m, k)
       IN size \o <<" ">>
            \o <<IF i + 1 \in DOMAIN sizes THEN sizes[i + 1] ELSE "undefined">>

\* String.prototype.toUpperCase on the letters the channel names use
toUpperCasePiece(ch) ==
  CASE ch = "a" -> "A" [] ch = "b" -> "B" [] ch = "c" -> "C" [] ch = "r" -> "R"
    [] OTHER -> ch

toUpperCase(s) == [i \in 1..Len(s) |-> toUpperCasePiece(s[i])]

charAt(s, i) == IF i + 1 \in DOMAIN s THEN <<s[i + 1]>> ELSE <<>>

slice(s, from) == SubSeq(s, from + 1, Len(s))

release == <<"r", "e", "l", "e", "a", "s", "e">>

betaPublic == <<"b", "e", "t", "a", "-", "p", "u", "b", "l", "i", "c">>

beta == <<"b", "e", "t", "a">>

alpha == <<"a", "l", "p", "h", "a">>

\* a switch that has lost the beta-public case
DisplayNameWithoutBetaPublic(channel) ==
  CASE channel = release -> <<"Official">>
    [] channel = beta -> <<"Beta">>
    [] channel = alpha -> <<"Alpha">>
    [] OTHER -> toUpperCase(charAt(channel, 0)) \o slice(channel, 1)

getChannelDisplayName(channel) ==
  CASE channel = release -> <<"Official">>
    [] channel = betaPublic -> <<"Beta">>
    [] channel = beta -> <<"Beta">>
    [] channel = alpha -> <<"Alpha">>
    [] OTHER -> toUpperCase(charAt(channel, 0)) \o slice(channel, 1)

(***************************************************************************)
(* The formatters on their own: one call on an input of the bounded sets   *)
(***************************************************************************)
MaxMantissa == 1600

MaxExponent == 3

ByteInputs ==
  {Bytes(m, e) : m \in (0..MaxMantissa) \cup {1048575, 1048576},
                 e \in 0..MaxExponent}

MaxChannelLen == 3

ChannelChars == {"r", "c", "B", "-"}

RECURSIVE ChannelStringsUpTo(_)
ChannelStringsUpTo(n) ==
  IF n = 0 THEN {<<>>}
  ELSE LET shorter == ChannelStringsUpTo(n - 1)
       IN shorter \cup {Append(s, ch) : s \in shorter, ch \in ChannelChars}

ChannelNameInputs ==
  {release, betaPublic, beta, alpha,
   <<"R", "e", "l", "e", "a", "s", "e">>, <<"b", "e", "t", "a", "-">>,
   <<"a", "l", "p", "h", "a", "2">>}
    \cup ChannelStringsUpTo(MaxChannelLen)

IdleFormat ==
  [pc |-> "ready", op |-> "none", bytes |-> Bytes(0, 0), channel |-> <<>>,
   text |-> <<>>]

FormatFileSize ==
  /\ fmt.pc = "ready"
  /\ \E bytes \in ByteInputs :
       fmt' = [pc |-> "done", op |-> "formatFileSize", bytes |-> bytes,
               channel |-> <<>>, text |-> formatFileSize(bytes)]
  /\ UNCHANGED <<impl, cache, calls, q, fv, viewVars>>

GetChannelDisplayName ==
  /\ fmt.pc = "ready"
  /\ \E channel \in ChannelNameInputs :
       fmt' = [pc |-> "done", op |-> "getChannelDisplayName",
               bytes |-> Bytes(0, 0), channel |-> channel,
               text |-> getChannelDisplayName(channel)]
  /\ UNCHANGED <<impl, cache, calls, q, fv, viewVars>>

(***************************************************************************)
(* The search view (FirmwareSearch.vue).  The view holds the two           *)
(* selections (route queries), the two useAsyncState objects filterOptions *)
(* and firmware, the flag isShowingLatestFirmwareData and the timer of the *)
(* debounced firmware.execute.  Each execution of an async state that      *)
(* reached the network is outstanding until its request settles; several   *)
(* can be outstanding at once.                                             *)
(***************************************************************************)
\* JavaScript null: the value of a route query that is absent
Null == [t |-> "null", n |-> 0, s |-> <<>>]

ProductSelections == {Null, Str(<<"a">>)}

PlatformSelections == {Null, Str(<<"b">>)}

DebounceMs == 300

ViewLimit == 10000

\* a firmware item with its creation time (new Date(created).getTime())
ItemCreated(item, created) ==
  [product |-> item.product, platform |-> item.platform,
   channel |-> item.channel, created |-> created]

\* Array.prototype.sort((a, b) => b.created - a.created): stable, newest first
RECURSIVE InsertByCreated(_, _)
InsertByCreated(sorted, x) ==
  IF sorted = <<>> THEN <<x>>
  ELSE IF x.created - sorted[Len(sorted)].created <= 0
       THEN Append(sorted, x)
  ELSE Append(InsertByCreated(SubSeq(sorted, 1, Len(sorted) - 1), x),
              sorted[Len(sorted)])

RECURSIVE sort(_)
sort(arr) ==
  IF arr = <<>> THEN <<>>
  ELSE InsertByCreated(sort(SubSeq(arr, 1, Len(arr) - 1)), arr[Len(arr)])

\* what the remote delivers to the view
ResponseOldestFirst ==
  FirmwareResponse(<<ItemCreated(Item(<<"a">>, <<"b">>, <<"b">>), 1),
                     ItemCreated(Item(<<"B">>, <<"b">>, <<"b">>), 2)>>)

ViewBodies == {JsonNull, MalformedBody, ResponseOldestFirst}

ViewResponses ==
  {r \in Responses : r.statusText \in {<<"OK">>, <<"Internal Server Error">>}}

ViewParseMessage == <<"Unexpected end of JSON input">>

\* the filters object the view builds from its selections
viewFilters(product, platform) ==
  [product |-> IF Truthy(product) THEN product ELSE Undefined,
   platform |-> IF Truthy(platform) THEN platform ELSE Undefined,
   channel |-> Undefined, limit |-> Num(ViewLimit), offset |-> Undefined,
   sort |-> Undefined]

\* the service call the firmware function makes for the selections it reads
firmwareRequest(product, platform) ==
  IF ~Truthy(product) /\ ~Truthy(platform)
  THEN [op |-> "fetchLatestFirmware", url |-> fetchLatestFirmwareUrl]
  ELSE [op |-> "fetchFirmware",
        url |-> fetchFirmwareUrl(viewFilters(product, platform), <<>>)]

\* response._embedded.firmware can be read
Readable(body) == body.t = "object" /\ body.embedded

\* What the firmware function does with the settled service call: flag is
\* the value it assigns to isShowingLatestFirmwareData ("keep": none),
\* sorted says that it sorted the list of the response in place.
firmwareFunction(op, result) ==
  IF result.kind = "throw"
  THEN [kind |-> "throw", list |-> <<>>, flag |-> "keep", sorted |-> FALSE]
  ELSE IF op = "fetchLatestFirmware"
  THEN IF Readable(result.body)
       THEN [kind |-> "return", list |-> sort(result.body.firmware),
             flag |-> "true", sorted |-> TRUE]
       ELSE [kind |-> "throw", list |-> <<>>, flag |-> "keep",
             sorted |-> FALSE]
  ELSE IF Readable(result.body)
       THEN [kind |-> "return", list |-> result.body.firmware,
             flag |-> "false", sorted |-> FALSE]
       ELSE [kind |-> "throw", list |-> <<>>, flag |-> "false",
             sorted |-> FALSE]

(***************************************************************************)
(* The view's state as one record, so that the steps that run one after    *)
(* the other inside a single task (a settled request, the function that    *)
(* awaited it, the next execute of onMounted) compose.  hist records what  *)
(* has happened: it is read by no step.                                    *)
(***************************************************************************)
NoError == <<>>

TypeErrorMessage == <<"Cannot read properties of undefined">>

InitialFilterOptions ==
  [state |-> [products |-> <<>>, platforms |-> <<>>], isLoading |-> FALSE,
   isReady |-> FALSE]

InitialFirmware ==
  [state |-> <<>>, isLoading |-> FALSE, isReady |-> FALSE, error |-> NoError]

EmptyCount == [u \in {} |-> 0]

Count(f, u) == IF u \in DOMAIN f THEN f[u] ELSE 0

Incr(f, u) ==
  [k \in DOMAIN f \cup {u} |-> IF k = u THEN Count(f, u) + 1 ELSE f[k]]

NothingDisplayed == [by |-> 0, from |-> "none", product |-> Null, platform |-> Null]

InitialHistory ==
  [changes |-> 0, bursts |-> 0, debounced |-> 0, sinceChange |-> 0,
   started |-> 0,
   lastStart |-> [by |-> "none", product |-> Null, platform |-> Null],
   requests |-> EmptyCount, invocations |-> EmptyCount,
   failed |-> {}, reissued |-> FALSE, parsed |-> EmptyCache,
   displayed |-> NothingDisplayed,
   resolved |-> [by |-> 0, list |-> <<>>],
   overlapped |-> FALSE,
   mountClean |-> FALSE, mountOptions |-> "none", mountFirmware |-> "none"]

View ==
  [cache |-> cache, flag |-> isShowingLatestFirmwareData,
   filterOptions |-> filterOptions, firmware |-> firmware, mount |-> mount,
   executions |-> executions, hist |-> hist]

Becomes(S) ==
  /\ cache' = S.cache
  /\ isShowingLatestFirmwareData' = S.flag
  /\ filterOptions' = S.filterOptions
  /\ firmware' = S.firmware
  /\ mount' = S.mount
  /\ executions' = S.executions
  /\ hist' = S.hist

Without(execs, id) == [k \in DOMAIN execs \ {id} |-> execs[k]]

\* useAsyncState assigns the data of every execution that resolves
StateOfLatestExecution(id, latest, data, old) ==
  IF id = latest THEN data ELSE old

stateAfterResolve(id, latest, data, old) == data

\* a cachedFetch that asked the remote again when its request failed
RequestsAfterRetry(requests, url) == Incr(requests, url)

\* cachedFetch throws when its request fails: no request follows
requestsAfterThrow(requests, url) == requests

\* cachedFetch misses the cache: the request goes out, the execution waits
issue(S, id, e) ==
  [S EXCEPT !.executions =
              [k \in DOMAIN S.executions \cup {id} |->
                 IF k = id THEN e ELSE S.executions[k]],
            !.hist.requests = Incr(@, e.url),
            !.hist.reissued = @ \/ e.url \in S.hist.failed,
            !.hist.overlapped =
               @ \/ (e.of = "firmware"
                     /\ \E k \in DOMAIN S.executions :
                          S.executions[k].of = "firmware")]

\* the rest of firmware.execute once the service call has settled
firmwareSettle(S, id, e, result) ==
  LET out == firmwareFunction(e.op, result)
      shown == [by |-> id,
                from |-> IF e.op = "fetchLatestFirmware" THEN "latest"
                         ELSE "filtered",
                product |-> e.product, platform |-> e.platform]
      message == IF result.kind = "throw" THEN result.message
                 ELSE TypeErrorMessage
  IN [S EXCEPT
        !.cache = IF out.sorted
                  THEN [@ EXCEPT ![e.url] = FirmwareResponse(out.list)]
                  ELSE @,
        !.flag = CASE out.flag = "true" -> TRUE
                   [] out.flag = "false" -> FALSE
                   [] OTHER -> @,
        !.firmware =
           IF out.kind = "return"
           THEN [@ EXCEPT !.state = stateAfterResolve(id, S.hist.started,
                                                      out.list, @),
                          !.isReady = TRUE, !.isLoading = FALSE]
           ELSE [@ EXCEPT !.error = message, !.isLoading = FALSE],
        !.mount = IF e.by = "mount" THEN "mounted" ELSE @,
        !.hist.displayed =
           IF out.kind = "return"
           THEN stateAfterResolve(id, S.hist.started, shown, @)
           ELSE @,
        !.hist.resolved =
           IF out.kind = "return" THEN [by |-> id, list |-> out.list] ELSE @]

\* firmware.execute(): the function runs up to its await of the service
firmwareExecute(S, by, product, platform) ==
  LET req == firmwareRequest(product, platform)
      id == S.hist.started + 1
      e == [of |-> "firmware", op |-> req.op, url |-> req.url,
            pc |-> "fetching", status |-> 0, by |-> by,
            product |-> product, platform |-> platform]
      S1 == [S EXCEPT
               !.firmware = [@ EXCEPT !.error = NoError, !.isReady = FALSE,
                                      !.isLoading = TRUE],
               !.mount = IF by = "mount" THEN "firmware" ELSE @,
               !.hist.started = id,
               !.hist.lastStart =
                  [by |-> by, product |-> product, platform |-> platform],
               !.hist.debounced = IF by = "debounce" THEN @ + 1 ELSE @,
               !.hist.invocations = Incr(@, req.url)]
      cached == getCached(S.cache, req.url)
  IN IF TruthyBody(cached)
     THEN firmwareSettle(S1, id, e, OpResult(req.op, Return(cached, 0)))
     ELSE issue(S1, id, e)

\* the rest of filterOptions.execute, and of onMounted after it
filterOptionsSettle(S, raw, product, platform) ==
  LET values == OpResult("getInitialFilterValues", raw).values
      S1 == [S EXCEPT
               !.filterOptions =
                  [state |-> [products |-> values.products,
                              platforms |-> values.platforms],
                   isLoading |-> FALSE, isReady |-> TRUE]]
  IN firmwareExecute(S1, "mount", product, platform)

\* filterOptions.execute()
filterOptionsExecute(S, product, platform) ==
  LET id == S.hist.started + 1
      e == [of |-> "filterOptions", op |-> "getInitialFilterValues",
            url |-> fetchLatestFirmwareUrl, pc |-> "fetching", status |-> 0,
            by |-> "mount", product |-> product, platform |-> platform]
      S1 == [S EXCEPT
               !.filterOptions = [@ EXCEPT !.isReady = FALSE,
                                           !.isLoading = TRUE],
               !.mount = "filterOptions",
               !.hist.started = id,
               !.hist.invocations = Incr(@, e.url)]
      cached == getCached(S.cache, e.url)
  IN IF TruthyBody(cached)
     THEN filterOptionsSettle(S1, Return(cached, 0), product, platform)
     ELSE issue(S1, id, e)

\* a request of execution id has settled with raw, the outcome of cachedFetch
settle(S, id, raw) ==
  LET e == S.executions[id]
      outcome == IF raw.kind = "return" THEN "ok" ELSE "failed"
      S1 == [S EXCEPT
               !.executions = Without(@, id),
               !.cache = IF raw.kind = "return"
                         THEN setCache(@, e.url, raw.body)
                         ELSE cacheAfterThrow(@, e.url),
               !.hist.parsed = IF raw.kind = "return"
                               THEN setCache(@, e.url, raw.body) ELSE @,
               !.hist.requests = IF raw.kind = "throw"
                                 THEN requestsAfterThrow(@, e.url) ELSE @,
               !.hist.failed = IF raw.kind = "throw" THEN @ \cup {e.url}
                               ELSE @,
               !.hist.mountOptions =
                  IF e.of = "filterOptions" THEN outcome ELSE @,
               !.hist.mountFirmware =
                  IF e.of = "firmware" /\ e.by = "mount" THEN outcome ELSE @]
  IN IF e.of = "filterOptions"
     THEN filterOptionsSettle(S1, raw, selectedProductType, selectedPlatform)
     ELSE firmwareSettle(S1, id, e, OpResult(e.op, raw))

(***************************************************************************)
(* The steps of the view.  Time is counted in steps of TickMs while the    *)
(* debounce timer runs; the timer's callback runs as soon as it is due.    *)
(***************************************************************************)
MaxChanges == 2

MaxBursts == 1

TickMs == 100

NoTimer == -1

NoExecutions == [id \in {} |-> 0]

\* a debounce that keeps the timer of the first call of a burst
ThrottledExecute(t) == IF t = NoTimer THEN DebounceMs ELSE t

\* debouncedExecute(): the timer is set anew, a pending one is dropped
debouncedExecute(t) == DebounceMs

\* onMounted: await filterOptions.execute(), then await firmware.execute();
\* the selections are the route's product and platform queries
Mount ==
  /\ mount = "created"
  /\ \E product \in ProductSelections, platform \in PlatformSelections :
       /\ selectedProductType' = product
       /\ selectedPlatform' = platform
       /\ Becomes(filterOptionsExecute(
                    [View EXCEPT !.hist.mountClean =
                                    product = Null /\ platform = Null],
                    product, platform))
  /\ UNCHANGED <<impl, calls, q, fv, fmt, timer>>

\* watch([selectedProductType, selectedPlatform], () => debouncedExecute())
Changed ==
  /\ mount # "created"
  /\ timer # 0
  /\ hist.changes < MaxChanges
  /\ timer = NoTimer => hist.bursts < MaxBursts
  /\ timer' = debouncedExecute(timer)
  /\ hist' = [hist EXCEPT !.changes = @ + 1,
                          !.bursts = IF timer = NoTimer THEN @ + 1 ELSE @,
                          !.sinceChange = 0,
                          !.failed = {},
                          !.mountClean = @ /\ mount = "mounted"]
  /\ UNCHANGED <<impl, cache, calls, q, fv, fmt, isShowingLatestFirmwareData,
                 filterOptions, firmware, mount, executions>>

SelectProduct ==
  /\ \E product \in ProductSelections \ {selectedProductType} :
       selectedProductType' = product
  /\ UNCHANGED selectedPlatform
  /\ Changed

SelectPlatform ==
  /\ \E platform \in PlatformSelections \ {selectedPlatform} :
       selectedPlatform' = platform
  /\ UNCHANGED selectedProductType
  /\ Changed

\* clearFilters, with something selected
ClearFilters ==
  /\ selectedProductType # Null /\ selectedPlatform # Null
  /\ selectedProductType' = Null
  /\ selectedPlatform' = Null
  /\ Changed

Tick ==
  /\ timer > 0
  /\ timer' = IF timer > TickMs THEN timer - TickMs ELSE 0
  /\ hist' = [hist EXCEPT !.sinceChange = @ + TickMs]
  /\ UNCHANGED <<impl, cache, calls, q, fv, fmt, selectedProductType,
                 selectedPlatform, isShowingLatestFirmwareData, filterOptions,
                 firmware, mount, executions>>

\* the debounce timer is due: firmware.execute()
DebounceFires ==
  /\ timer = 0
  /\ timer' = NoTimer
  /\ Becomes(firmwareExecute(View, "debounce", selectedProductType,
                             selectedPlatform))
  /\ UNCHANGED <<impl, calls, q, fv, fmt, selectedProductType,
                 selectedPlatform>>

Settles(id, raw) ==
  /\ Becomes(settle(View, id, raw))
  /\ UNCHANGED <<impl, calls, q, fv, fmt, selectedProductType,
                 selectedPlatform, timer>>

\* await fetch(url) rejects
ViewFetchRejects(id) ==
  /\ executions[id].pc = "fetching"
  /\ Settles(id, Throw(TransportMessage, 0))

\* await fetch(url) resolves with a response that is not ok
ViewFetchRespondsError(id) ==
  /\ executions[id].pc = "fetching"
  /\ \E response \in ViewResponses :
       /\ ~ok(response)
       /\ Settles(id, HttpError(response))

\* await fetch(url) resolves with an ok response
ViewFetchRespondsOk(id) ==
  /\ executions[id].pc = "fetching"
  /\ \E response \in ViewResponses :
       /\ ok(response)
       /\ executions' = [executions EXCEPT ![id].pc = "parsing",
                                           ![id].status = response.status]
  /\ UNCHANGED <<impl, cache, calls, q, fv, fmt, selectedProductType,
                 selectedPlatform, isShowingLatestFirmwareData, filterOptions,
                 firmware, mount, timer, hist>>

\* await response.json() rejects
ViewJsonRejects(id) ==
  /\ executions[id].pc = "parsing"
  /\ Settles(id, Throw(ViewParseMessage, executions[id].status))

\* await response.json() resolves
ViewJsonResolves(id) ==
  /\ executions[id].pc = "parsing"
  /\ \E data \in ViewBodies :
       Settles(id, Return(data, executions[id].status))

(***************************************************************************)
(* Specifications                                                          *)
(***************************************************************************)
Init ==
  /\ impl \in {"A", "B"}
  /\ cache = EmptyCache
  /\ calls = [c \in Calls |-> IdleCall]
  /\ q = IdleQuery
  /\ fv = IdleExtraction
  /\ fmt = IdleFormat
  /\ selectedProductType = Null
  /\ selectedPlatform = Null
  /\ isShowingLatestFirmwareData = FALSE
  /\ filterOptions = InitialFilterOptions
  /\ firmware = InitialFirmware
  /\ mount = "created"
  /\ timer = NoTimer
  /\ executions = NoExecutions
  /\ hist = InitialHistory

Next ==
  \E c \in Calls :
    \/ FetchFirmware(c)
    \/ FetchLatestFirmware(c)
    \/ GetFirmwareById(c)
    \/ GetInitialFilterValues(c)
    \/ FetchRejects(c)
    \/ FetchRespondsError(c)
    \/ FetchRespondsOk(c)
    \/ JsonRejects(c)
    \/ JsonResolves(c)

Spec == Init /\ [][Next]_vars

NextQuery == QueryFetchFirmware \/ QuerySearchFirmware

SpecQuery == Init /\ [][NextQuery]_vars

NextExtract == ExtractFilterValues

SpecExtract == Init /\ [][NextExtract]_vars

NextFormat == FormatFileSize \/ GetChannelDisplayName

SpecFormat == Init /\ [][NextFormat]_vars

NextView ==
  \/ Mount
  \/ SelectProduct
  \/ SelectPlatform
  \/ ClearFilters
  \/ Tick
  \/ DebounceFires
  \/ \E id \in DOMAIN executions :
       \/ ViewFetchRejects(id)
       \/ ViewFetchRespondsError(id)
       \/ ViewFetchRespondsOk(id)
       \/ ViewJsonRejects(id)
       \/ ViewJsonResolves(id)

SpecView == Init /\ [][NextView]_vars

(***************************************************************************)
(* Reading a URL back: what the remote finds in the query string           *)
(***************************************************************************)
IndexOf(s, piece) ==
  IF \E i \in 1..Len(s) : s[i] = piece
  THEN CHOOSE i \in 1..Len(s) : s[i] = piece /\ \A j \in 1..(i - 1) : s[j] # piece
  ELSE 0

\* the query: after the first "?", up to the fragment
QueryOf(url) ==
  LET h == IndexOf(url, "#")
      noFragment == IF h = 0 THEN url ELSE SubSeq(url, 1, h - 1)
      m == IndexOf(noFragment, "?")
  IN IF m = 0 THEN <<>> ELSE SubSeq(noFragment, m + 1, Len(noFragment))

RECURSIVE Split(_, _)
Split(s, sep) ==
  LET i == IndexOf(s, sep)
  IN IF i = 0 THEN <<s>>
     ELSE <<SubSeq(s, 1, i - 1)>> \o Split(SubSeq(s, i + 1, Len(s)), sep)

FormDecodePiece(c) ==
  IF c = "+" THEN " "
  ELSE IF \E k \in DOMAIN PercentEscape : PercentEscape[k] = c
       THEN CHOOSE k \in DOMAIN PercentEscape : PercentEscape[k] = c
  ELSE c

FormDecode(s) == [i \in 1..Len(s) |-> FormDecodePiece(s[i])]

\* the decoded name=value pairs of the query, in order
QueryParams(url) ==
  LET parts == SelectSeq(Split(QueryOf(url), "&"), LAMBDA x : x # <<>>)
      pair(p) ==
        LET e == IndexOf(p, "=")
        IN [key |-> FormDecode(IF e = 0 THEN p ELSE SubSeq(p, 1, e - 1)),
            value |-> FormDecode(IF e = 0 THEN <<>>
                                 ELSE SubSeq(p, e + 1, Len(p)))]
  IN [i \in 1..Len(parts) |-> pair(parts[i])]

QueryKeys(url) == [i \in 1..Len(QueryParams(url)) |-> QueryParams(url)[i].key]

HasPrefix(s, prefix) ==
  Len(s) >= Len(prefix) /\ SubSeq(s, 1, Len(prefix)) = prefix

\* index of the first "~~" of s at or after position from, 0 if none
TildesFrom(s, from) ==
  LET at(i) == i >= from /\ i + 1 <= Len(s) /\ s[i] = "~" /\ s[i + 1] = "~"
  IN IF \E i \in 1..Len(s) : at(i)
     THEN CHOOSE i \in 1..Len(s) : at(i) /\ \A j \in 1..(i - 1) : ~at(j)
     ELSE 0

\* a filter value of the form <operator>~~<field>~~ with nothing after it
EmptyCondition(v) ==
  LET i1 == TildesFrom(v, 1)
      i2 == IF i1 = 0 THEN 0 ELSE TildesFrom(v, i1 + 2)
  IN i2 # 0 /\ i2 + 1 = Len(v)

FilterFields == {"product", "platform", "channel"}

ConditionPrefix(field) == <<"eq", "~", "~", field, "~", "~">>

FilterParamsOf(url, field) ==
  SelectSeq(QueryParams(url),
            LAMBDA p : p.key = <<"filter">>
                       /\ HasPrefix(p.value, ConditionPrefix(field)))

(***************************************************************************)
(* C9  Query grammar: the URL fetchFirmware requests carries exactly one   *)
(* parameter filter=eq~~<field>~~<value> for each of product, platform and *)
(* channel that is a non-empty string, none for a field that is unset or   *)
(* empty, and with all three unset and no extra conditions its query holds *)
(* only limit and offset, plus sort if provided.                           *)
(***************************************************************************)
C9_QueryGrammar ==
  (q.pc = "built" /\ q.op = "fetchFirmware") =>
    /\ \A f \in FilterFields :
         FilterParamsOf(q.url, f) =
           IF Truthy(q.filters[f])
           THEN <<[key |-> <<"filter">>,
                   value |-> ConditionPrefix(f) \o q.filters[f].s]>>
           ELSE <<>>
    /\ ((\A f \in FilterFields : ~Truthy(q.filters[f])) /\ q.conditions = <<>>)
         => QueryKeys(q.url) =
              <<<<"limit">>, <<"offset">>>>
                \o (IF Truthy(q.filters.sort) THEN <<<<"sort">>>> ELSE <<>>)

(***************************************************************************)
(* C10  Empty conditions are never serialized: whatever filters, extra     *)
(* conditions or search term are passed, the requested URL holds no filter *)
(* parameter of the form filter=<operator>~~<field>~~ with an empty value. *)
(* Stated for filter values that hold no "&", so that what refutes it is   *)
(* an empty condition and not a separator inside a value.                  *)
(***************************************************************************)
NoSeparator(v) == \A i \in 1..Len(v.s) : v.s[i] # "&"

C10_NoEmptyCondition ==
  (q.pc = "built" /\ \A f \in FilterFields : NoSeparator(q.filters[f])) =>
    \A i \in 1..Len(QueryParams(q.url)) :
      QueryParams(q.url)[i].key = <<"filter">>
        => ~EmptyCondition(QueryParams(q.url)[i].value)

(***************************************************************************)
(* Calls of the service, for the claims about the cache                    *)
(***************************************************************************)
Started(c) == calls[c].pc # "idle"

Done(c) == calls[c].pc = "done"

SameUrl(c, d) == Started(c) /\ Started(d) /\ calls[c].url = calls[d].url

\* c returned the body of its own network request
Fetched(c) == Done(c) /\ calls[c].issued /\ calls[c].raw.kind = "return"

Threw(c) == Done(c) /\ calls[c].raw.kind = "throw"

\* both were started before either completed
Overlapped(c, d) ==
  /\ c # d /\ Started(c) /\ Started(d)
  /\ c \notin calls[d].after /\ d \notin calls[c].after

\* the step in which call c ends by throwing
ThrowStep(c) ==
  /\ calls[c].pc \in {"fetching", "parsing"}
  /\ calls'[c].pc = "done" /\ calls'[c].raw.kind = "throw"

\* the step in which call c stores and returns the body it parsed
ReturnStep(c) ==
  /\ calls[c].pc = "parsing"
  /\ calls'[c].pc = "done" /\ calls'[c].raw.kind = "return"

(***************************************************************************)
(* C1  Cache idempotence: once a cachedFetch(url) has succeeded, every     *)
(* later cachedFetch(url) issues no network request and returns a value    *)
(* equal to the one that call returned, for any body the remote returns.   *)
(***************************************************************************)
C1_CacheIdempotence ==
  \A c, d \in Calls :
    (c \in calls[d].after /\ SameUrl(c, d) /\ calls[c].raw.kind = "return")
      => /\ ~calls[d].issued
         /\ calls[d].raw.kind = "return"
         /\ calls[d].raw.body = calls[c].raw.body

(***************************************************************************)
(* C2  No negative caching: the step in which a cachedFetch(url) fails     *)
(* (error status, transport failure, unparsable body) leaves the cache as  *)
(* it is, and a cachedFetch(url) started after failed calls for that URL,  *)
(* no call for it having returned, issues a new network request.           *)
(***************************************************************************)
C2_FailureLeavesCache == \A c \in Calls : ThrowStep(c) => cache' = cache

C2_RetriedAfterFailure ==
  \A c, d \in Calls :
    (c \in calls[d].after /\ SameUrl(c, d) /\ Threw(c)
       /\ ~\E e \in calls[d].after :
             SameUrl(e, d) /\ calls[e].raw.kind = "return")
      => calls[d].issued

C2_NoNegativeCaching ==
  [][C2_FailureLeavesCache]_vars /\ []C2_RetriedAfterFailure

C2_Witness ==
  \E c, d \in Calls :
    /\ c \in calls[d].after /\ SameUrl(c, d) /\ Threw(c)
    /\ calls[d].issued
    /\ calls[d].url \notin DOMAIN cache

(***************************************************************************)
(* C3  As claimed: a URL once in the cache stays in it and the value       *)
(* stored under it is never replaced by a different one.  Read on the      *)
(* entries a lookup returns (truthy bodies).                               *)
(***************************************************************************)
C3_EntriesNeverReplaced ==
  [][\A u \in DOMAIN cache :
       /\ u \in DOMAIN cache'
       /\ TruthyBody(cache[u]) => cache'[u] = cache[u]]_vars

(***************************************************************************)
(* C3  As amended: a URL once in the cache stays in it; the value under a  *)
(* URL is written only by a cachedFetch for that URL that has parsed the   *)
(* body of its own network request, and is then that body (a later         *)
(* completion for the same URL replaces the entry).                        *)
(***************************************************************************)
C3_EntriesStayWrittenByOwner ==
  [][/\ \A u \in DOMAIN cache : u \in DOMAIN cache'
     /\ \A u \in DOMAIN cache' :
          (u \notin DOMAIN cache \/ cache'[u] # cache[u])
            => \E c \in Calls :
                 /\ ReturnStep(c) /\ calls[c].url = u
                 /\ cache'[u] = calls'[c].raw.body]_vars

\* an entry written by one call has been replaced by the body of another
C3_Witness ==
  \E c, d \in Calls :
    /\ SameUrl(c, d) /\ Fetched(c) /\ Fetched(d)
    /\ TruthyBody(calls[c].raw.body) /\ TruthyBody(calls[d].raw.body)
    /\ calls[c].raw.body # calls[d].raw.body
    /\ c \in calls[d].doneAfter
    /\ cache[calls[d].url] = calls[d].raw.body

(***************************************************************************)
(* C4  No request de-duplication: of two cachedFetch calls for the same    *)
(* uncached URL started before either completes, each issues its own       *)
(* request, each that gets a body stores it and returns it, and the entry  *)
(* stored in the end is the one of the call that completed last.           *)
(***************************************************************************)
C4_NoDeduplication ==
  \A c, d \in Calls :
    /\ (Overlapped(c, d) /\ SameUrl(c, d) /\ calls[c].issued
          /\ ~\E e \in calls[d].after : SameUrl(e, d) /\ Fetched(e))
         => calls[d].issued
    /\ (Fetched(c)
          /\ \A e \in Calls \ {c} :
               (SameUrl(e, c) /\ Fetched(e)) => e \in calls[c].doneAfter)
         => /\ calls[c].url \in DOMAIN cache
            /\ cache[calls[c].url] = calls[c].raw.body

C4_Witness ==
  \E c, d \in Calls :
    /\ Overlapped(c, d) /\ SameUrl(c, d)
    /\ Fetched(c) /\ Fetched(d)
    /\ calls[c].raw.body # calls[d].raw.body
    /\ c \in calls[d].doneAfter
    /\ cache[calls[d].url] = calls[d].raw.body

(***************************************************************************)
(* C5  404-to-null: getFirmwareById returns null when, and only when, the  *)
(* remote answered its request with status 404; every other failure is     *)
(* thrown to the caller.                                                   *)
(***************************************************************************)
C5_NullOnlyOn404 ==
  \A c \in Calls :
    (Done(c) /\ calls[c].op = "getFirmwareById") =>
      ((calls[c].result.kind = "return" /\ calls[c].result.body = JsonNull)
         <=> calls[c].raw.status = 404)

(***************************************************************************)
(* C6  fetchFirmware and fetchLatestFirmware hand every failure of         *)
(* cachedFetch to their caller unchanged, a 404 included, and return no    *)
(* value when the request failed.                                          *)
(***************************************************************************)
C6_FailuresPropagate ==
  \A c \in Calls :
    (Done(c) /\ calls[c].op \in {"fetchFirmware", "fetchLatestFirmware"}
       /\ calls[c].raw.kind = "throw")
      => /\ calls[c].result.kind = "throw"
         /\ calls[c].result.message = calls[c].raw.message

C6_Witness ==
  \E c, d \in Calls :
    /\ Threw(c) /\ calls[c].op = "fetchFirmware" /\ calls[c].raw.status = 404
    /\ calls[c].result.kind = "throw"
    /\ Threw(d) /\ calls[d].op = "fetchLatestFirmware"
    /\ calls[d].raw.status = 404 /\ calls[d].result.kind = "throw"

(***************************************************************************)
(* C7  getInitialFilterValues never fails: it returns for every outcome of *)
(* the firmware-latest request, and returns three empty lists whenever the *)
(* request failed or the body could not be read (null, no _embedded, a     *)
(* field value that is no string).                                         *)
(***************************************************************************)
C7_NeverFails ==
  \A c \in Calls :
    (Done(c) /\ calls[c].op = "getInitialFilterValues") =>
      /\ calls[c].result.kind = "return"
      /\ (calls[c].raw.kind = "throw" \/ extractionThrows(calls[c].raw.body))
           => calls[c].result.values = EmptyFilterValues

C7_Witness ==
  \E c, d \in Calls :
    /\ Threw(c) /\ calls[c].op = "getInitialFilterValues"
    /\ calls[c].result.kind = "return"
    /\ Done(d) /\ calls[d].op = "getInitialFilterValues"
    /\ calls[d].raw.kind = "return" /\ calls[d].raw.body = ResponseNullProduct
    /\ calls[d].result.values = EmptyFilterValues

(***************************************************************************)
(* C8  Filter-value extraction: each of products, platforms and channels   *)
(* holds exactly the distinct values of its field in the response items,   *)
(* each once, in ascending order of their lower-cased form.                *)
(***************************************************************************)
LowerForm(s) ==
  [i \in 1..Len(s) |->
     CASE s[i] = "A" -> "a" [] s[i] = "B" -> "b" [] s[i] = "C" -> "c"
       [] OTHER -> s[i]]

AlphabetPosition == ("a" :> 1) @@ ("b" :> 2) @@ ("c" :> 3)

\* a <= b in dictionary order, for strings of lower-case letters
RECURSIVE DictionaryLeq(_, _)
DictionaryLeq(a, b) ==
  IF a = <<>> THEN TRUE
  ELSE IF b = <<>> THEN FALSE
  ELSE IF Head(a) # Head(b)
       THEN AlphabetPosition[Head(a)] < AlphabetPosition[Head(b)]
  ELSE DictionaryLeq(Tail(a), Tail(b))

ExtractedAsClaimed(list, items, field) ==
  /\ {list[i] : i \in 1..Len(list)}
       = {items[i][field] : i \in 1..Len(items)}
  /\ \A i, j \in 1..Len(list) : i # j => list[i] # list[j]
  /\ \A i, j \in 1..Len(list) :
       i < j => DictionaryLeq(LowerForm(list[i]), LowerForm(list[j]))

C8_FilterValueExtraction ==
  fv.pc = "done" =>
    /\ fv.result.kind = "return"
    /\ ExtractedAsClaimed(fv.result.values.products, fv.firmware, "product")
    /\ ExtractedAsClaimed(fv.result.values.platforms, fv.firmware, "platform")
    /\ ExtractedAsClaimed(fv.result.values.channels, fv.firmware, "channel")

C8_Witness ==
  /\ fv.pc = "done"
  /\ [i \in 1..Len(fv.firmware) |-> fv.firmware[i].product]
       = <<<<"B">>, <<"a">>, <<"C">>>>
  /\ fv.result.values.products = <<<<"a">>, <<"B">>, <<"C">>>>

(***************************************************************************)
(* C11  Paging defaults: the URL fetchFirmware requests carries exactly    *)
(* one limit and one offset parameter; limit is filters.limit whenever     *)
(* that is set and 50 only when it is unset, offset is filters.offset      *)
(* whenever set and 0 only when unset, and a sort parameter is present     *)
(* exactly when a non-empty filters.sort is given, with that value.        *)
(* Stated for filter values that hold no "&".                              *)
(***************************************************************************)
ParamValues(url, key) ==
  LET ps == SelectSeq(QueryParams(url), LAMBDA p : p.key = key)
  IN [i \in 1..Len(ps) |-> ps[i].value]

\* the decimal text of a paging number given, or of the default when unset
GivenOr(v, default) ==
  IF v.t = "number" THEN <<ToString(v.n)>> ELSE <<ToString(default)>>

C11_PagingDefaults ==
  (q.pc = "built" /\ q.op = "fetchFirmware"
     /\ \A f \in FilterFields : NoSeparator(q.filters[f])) =>
    /\ ParamValues(q.url, <<"limit">>) = <<GivenOr(q.filters.limit, 50)>>
    /\ ParamValues(q.url, <<"offset">>) = <<GivenOr(q.filters.offset, 0)>>
    /\ ParamValues(q.url, <<"sort">>) =
         IF Truthy(q.filters.sort) THEN <<q.filters.sort.s>> ELSE <<>>

(***************************************************************************)
(* C15  Byte formatting: for every non-negative byte count formatFileSize  *)
(* returns a number with one decimal place, a space and a unit of B, KB,   *)
(* MB, GB, the unit being the one at index floor(log1024(bytes)); 0 gives  *)
(* "0 B", 1024 gives "1.0 KB" and 1536 gives "1.5 KB".                     *)
(***************************************************************************)
DecimalDigits == {"0", "1", "2", "3", "4", "5", "6", "7", "8", "9"}

UnitLabels == <<"B", "KB", "MB", "GB">>

\* floor(log1024(m * 1024^e)) for 1 <= m < 1024^3
Log1024Index(bytes) ==
  bytes.e + (CHOOSE k \in 0..2 :
               Pow1024(k) <= bytes.m /\ bytes.m \div 1024 < Pow1024(k))

C15_ByteFormatting ==
  (fmt.pc = "done" /\ fmt.op = "formatFileSize") =>
    /\ fmt.bytes.m = 0 => fmt.text = <<"0 B">>
    /\ fmt.bytes.m > 0 =>
         /\ Len(fmt.text) = 5
         /\ fmt.text[1] \notin {"", "-"}
         /\ fmt.text[2] = "." /\ fmt.text[3] \in DecimalDigits
         /\ fmt.text[4] = " "
         /\ Log1024Index(fmt.bytes) + 1 \in DOMAIN UnitLabels
         /\ fmt.text[5] = UnitLabels[Log1024Index(fmt.bytes) + 1]
    /\ fmt.bytes \in {Bytes(1024, 0), Bytes(1, 1)}
         => fmt.text = <<"1", ".", "0", " ", "KB">>
    /\ fmt.bytes = Bytes(1536, 0) => fmt.text = <<"1", ".", "5", " ", "KB">>

(***************************************************************************)
(* C16  Channel display mapping: getChannelDisplayName maps release to     *)
(* "Official", beta and beta-public to "Beta", alpha to "Alpha", and every *)
(* other channel string to itself with only its first character            *)
(* upper-cased ("rc" gives "Rc").                                          *)
(***************************************************************************)
Capital == ("a" :> "A") @@ ("b" :> "B") @@ ("c" :> "C") @@ ("r" :> "R")

FirstUpperCased(text, channel) ==
  /\ Len(text) = Len(channel)
  /\ \A i \in 2..Len(channel) : text[i] = channel[i]
  /\ channel # <<>> =>
       text[1] = IF channel[1] \in DOMAIN Capital THEN Capital[channel[1]]
                 ELSE channel[1]

C16_ChannelDisplayMapping ==
  (fmt.pc = "done" /\ fmt.op = "getChannelDisplayName") =>
    /\ fmt.channel = <<"r", "e", "l", "e", "a", "s", "e">>
         => fmt.text = <<"Official">>
    /\ fmt.channel = <<"b", "e", "t", "a">> => fmt.text = <<"Beta">>
    /\ fmt.channel = <<"b", "e", "t", "a", "-", "p", "u", "b", "l", "i", "c">>
         => fmt.text = <<"Beta">>
    /\ fmt.channel = <<"a", "l", "p", "h", "a">> => fmt.text = <<"Alpha">>
    /\ fmt.channel \notin {release, beta, betaPublic, alpha}
         => FirstUpperCased(fmt.text, fmt.channel)
    /\ fmt.channel = <<"r", "c">> => fmt.text = <<"R", "c">>

C16_Witness ==
  /\ fmt.pc = "done" /\ fmt.op = "getChannelDisplayName"
  /\ fmt.channel = <<"b", "e", "t", "a", "-">>
  /\ fmt.text = <<"B", "e", "t", "a", "-">>

(***************************************************************************)
(* C18  The request URL is a faithful key for the filter combination: two  *)
(* fetchFirmware calls with different product/platform/channel values and  *)
(* equal limit, offset and sort never build the same URL, and a filter     *)
(* value adds or changes no other query parameter: the URL holds one       *)
(* filter parameter for each value set and, besides these, the parameters  *)
(* of the URL built without any filter value.                              *)
(***************************************************************************)
\* the value a filter field contributes: unset and "" contribute nothing
Effective(v) == IF Truthy(v) THEN v.s ELSE <<>>

SameCombination(f, g) ==
  \A field \in FilterFields : Effective(f[field]) = Effective(g[field])

SamePaging(f, g) ==
  f.limit = g.limit /\ f.offset = g.offset /\ f.sort = g.sort

WithoutFilterValues(f) ==
  [f EXCEPT !.product = Undefined, !.platform = Undefined,
            !.channel = Undefined]

OtherParams(url) ==
  SelectSeq(QueryParams(url), LAMBDA p : p.key # <<"filter">>)

C18_FaithfulKey ==
  (q.pc = "built" /\ q.op = "fetchFirmware" /\ q.conditions = <<>>) =>
    /\ \A other \in FilterInputs :
         (SamePaging(other, q.filters) /\ ~SameCombination(other, q.filters))
           => fetchFirmwareUrl(other, <<>>) # q.url
    /\ OtherParams(q.url)
         = OtherParams(fetchFirmwareUrl(WithoutFilterValues(q.filters), <<>>))
    /\ Len(QueryParams(q.url)) - Len(OtherParams(q.url))
         = Cardinality({f \in FilterFields : Truthy(q.filters[f])})

(***************************************************************************)
(* The executions of the view, for the claims about it                     *)
(***************************************************************************)
FirmwareExecutions == {id \in DOMAIN executions : executions[id].of = "firmware"}

\* the step starts a firmware fetch from the debounce timer
DebouncedStart == hist'.debounced = hist.debounced + 1

(***************************************************************************)
(* C12  Debounce collapse: a burst of selection changes, each less than    *)
(* 300 ms after the one before, starts exactly one firmware fetch; the     *)
(* fetch starts only after 300 ms without a change and reads the           *)
(* selections current at that moment.                                      *)
(***************************************************************************)
C12_OneFetchPerBurst ==
  /\ timer = NoTimer => hist.debounced = hist.bursts
  /\ timer # NoTimer => hist.debounced = hist.bursts - 1

C12_StartsAfterQuiescence ==
  DebouncedStart =>
    /\ hist.sinceChange >= 300
    /\ hist'.lastStart =
         [by |-> "debounce", product |-> selectedProductType,
          platform |-> selectedPlatform]
    /\ \A id \in DOMAIN executions' \ DOMAIN executions :
         /\ executions'[id].url
              = firmwareRequest(selectedProductType, selectedPlatform).url
         /\ executions'[id].product = selectedProductType
         /\ executions'[id].platform = selectedPlatform

C12_DebounceCollapse ==
  []C12_OneFetchPerBurst /\ [][C12_StartsAfterQuiescence]_vars

\* a burst of two changes has ended and started its one fetch
C12_Witness ==
  /\ hist.bursts = 1 /\ hist.changes = 2 /\ hist.debounced = 1
  /\ timer = NoTimer
  /\ hist.lastStart.by = "debounce"
  /\ hist.lastStart.product = selectedProductType
  /\ selectedProductType # Null

(***************************************************************************)
(* C13  No cancellation, last resolver wins: a firmware fetch started      *)
(* while an earlier one is outstanding cancels nothing, and the displayed  *)
(* result set is the one delivered by the fetch that resolved last, so     *)
(* the view can come to rest showing the results of an older selection.    *)
(***************************************************************************)
C13_ShowsLastResolved ==
  hist.resolved.by # 0 =>
    /\ firmware.state = hist.resolved.list
    /\ hist.displayed.by = hist.resolved.by

C13_StartCancelsNothing ==
  DebouncedStart => \A id \in DOMAIN executions : id \in DOMAIN executions'

C13_LastResolverWins ==
  []C13_ShowsLastResolved /\ [][C13_StartCancelsNothing]_vars

\* at rest, showing what an overtaken fetch delivered for another selection
C13_Witness ==
  /\ hist.overlapped
  /\ DOMAIN executions = {} /\ timer = NoTimer /\ mount = "mounted"
  /\ hist.displayed.by # 0 /\ hist.displayed.by < hist.started
  /\ hist.displayed.by = hist.resolved.by
  /\ <<hist.displayed.product, hist.displayed.platform>>
       # <<selectedProductType, selectedPlatform>>
  /\ firmware.state # <<>>

(***************************************************************************)
(* C14  As claimed: no call issues more than one network request, and in   *)
(* the search view a URL whose request failed is not requested again       *)
(* until a filter changes.                                                 *)
(***************************************************************************)
RequestedUrls == DOMAIN hist.requests \cup DOMAIN hist.invocations

C14_NoRequestUntilFilterChanges ==
  /\ \A u \in RequestedUrls :
       Count(hist.requests, u) <= Count(hist.invocations, u)
  /\ ~hist.reissued

(***************************************************************************)
(* C14  As amended: no call issues more than one network request, and a    *)
(* request is issued only in a step in which the view invokes an           *)
(* operation for that URL: a step of onMounted (its filter-options load,   *)
(* then its firmware load, also right after a failed filter-options        *)
(* request for the same URL) or the debounced firmware load that follows   *)
(* a filter change.                                                        *)
(***************************************************************************)
Invoked(u) == Count(hist'.invocations, u) - Count(hist.invocations, u)

Requested(u) == Count(hist'.requests, u) - Count(hist.requests, u)

MountStep == mount' # mount /\ mount # "firmware"

C14_RequestsOnlyWhenInvoked ==
  \A u \in DOMAIN hist'.requests \cup DOMAIN hist'.invocations :
    /\ Requested(u) <= Invoked(u)
    /\ Invoked(u) <= 1
    /\ Invoked(u) = 1 =>
         \/ MountStep
         \/ DebouncedStart /\ hist.changes >= 1 /\ hist.sinceChange >= 300

C14_NoRetries ==
  [][C14_RequestsOnlyWhenInvoked]_vars
    /\ [](\A u \in RequestedUrls :
            Count(hist.requests, u) <= Count(hist.invocations, u))

\* the filter-options request failed and the firmware load asked again
C14_Witness ==
  /\ hist.mountOptions = "failed" /\ hist.mountFirmware = "failed"
  /\ hist.changes = 0
  /\ Count(hist.requests, fetchLatestFirmwareUrl) = 2
  /\ Count(hist.invocations, fetchLatestFirmwareUrl) = 2
  /\ DOMAIN executions = {}

(***************************************************************************)
(* C17  Cached bodies are never altered by consumers: the value the cache  *)
(* holds for a URL (which a later call for that URL returns) equals, item  *)
(* order included, the body parsed from the network response stored there. *)
(***************************************************************************)
C17_CachedBodiesUnaltered ==
  \A u \in DOMAIN cache : cache[u] = hist.parsed[u]

(***************************************************************************)
(* C19  Mount ordering: mounted with nothing selected, the view starts its *)
(* firmware load only when the filter-options load is complete; when the   *)
(* firmware-latest request of the filter-options load succeeds, the mount  *)
(* issues that one request only; when it fails, the firmware load issues a *)
(* second one, whose error is shown, and the filter options stay empty.    *)
(***************************************************************************)
C19_MountOrdering ==
  /\ \A id \in FirmwareExecutions :
       executions[id].by = "mount" =>
         mount = "firmware" /\ filterOptions.isReady /\ ~filterOptions.isLoading
  /\ mount = "filterOptions" => filterOptions.isLoading /\ ~filterOptions.isReady
  /\ (mount = "mounted" /\ hist.mountClean /\ hist.changes = 0) =>
       LET n == Count(hist.requests, fetchLatestFirmwareUrl)
       IN /\ hist.mountOptions = "ok" => n = 1
          /\ hist.mountOptions = "failed" =>
               /\ n = 2
               /\ filterOptions.state = [products |-> <<>>, platforms |-> <<>>]
               /\ hist.mountFirmware = "failed" => firmware.error # NoError

(***************************************************************************)
(* C20  The flag matches the displayed data: isShowingLatestFirmwareData   *)
(* is true exactly when the displayed result set came from the             *)
(* firmware-latest endpoint; a fetch uses that endpoint exactly when       *)
(* product and platform are both unset as it starts, and otherwise queries *)
(* the paginated endpoint with eq filters for exactly the set selections.  *)
(***************************************************************************)
Selected(v) == v.t = "string" /\ v.s # <<>>

ExpectedFilter(field, v) ==
  IF Selected(v)
  THEN <<[key |-> <<"filter">>, value |-> <<"eq", "~", "~", field, "~", "~">> \o v.s]>>
  ELSE <<>>

C20_FlagMatchesDisplayedData ==
  /\ isShowingLatestFirmwareData <=> hist.displayed.from = "latest"
  /\ \A id \in FirmwareExecutions :
       LET e == executions[id]
       IN IF ~Selected(e.product) /\ ~Selected(e.platform)
          THEN e.url = <<"https://fw-update.ubnt.com/api", "/firmware-latest">>
          ELSE /\ HasPrefix(e.url, <<"https://fw-update.ubnt.com/api",
                                     "/firmware", "?">>)
               /\ FilterParamsOf(e.url, "product")
                    = ExpectedFilter("product", e.product)
               /\ FilterParamsOf(e.url, "platform")
                    = ExpectedFilter("platform", e.platform)
               /\ Len(SelectSeq(QueryParams(e.url),
                                LAMBDA p : p.key = <<"filter">>))
                    = Cardinality({v \in {e.product, e.platform} : Selected(v)})

====
